---------------------------- MODULE Spec2Model ----------------------------
(***************************************************************************)
(* A model of the monthly S&P 500 trader: src/backtest.py (historical      *)
(* replay) and src/screener.py (live screening).                           *)
(*                                                                         *)
(* Numbers.  pandas cells are floats or NaN.  A cell is modelled as a      *)
(* tuple: <<>> is NaN (undefined) and <<v>> is the defined value v, so a   *)
(* comparison with NaN is false, as in pandas, and never an arithmetic     *)
(* accident.  Scores are kept in units of 1/ScoreDen so that               *)
(* dircount + roc/1000 is an exact integer for the modelled prices.        *)
(***************************************************************************)
EXTENDS Integers, Sequences, FiniteSets, TLC

VARIABLES
    daily,      \* resample_stocks_to_month: the daily frame handed in
    resampled,  \* resample_stocks_to_month: the monthly frame returned
    row,        \* get_top_stocks: the month row (NaN already dropped)
    top,        \* get_top_stocks: what the call returned
    cross,      \* cross-sectional filter: the merged tables it is given
    screened,   \* cross-sectional filter: neg_symbols and changes[12] after it
    frames,     \* momentum: a monthly frame and the same frame with one month altered
    scores,     \* momentum: both frames after momentum()
    mode,       \* which program runs: "backtest" or "screener"
    membership, \* SP_500_stocks.df: the historical membership table, if loaded
    provider,   \* the price data source: symbol -> monthly bars
    index,      \* get_monthly_index(): month number -> [Close, sma]
    stocks,     \* prepare_stocks' dict: symbol -> monthly frame
    tables,     \* prepare_stocks' merged tables changes[6], [9], [12], beta
    sp_500_stocks, \* __main__: the table prepare_stocks returned
    portfolio,  \* __main__ of the backtest: the positions
    report,     \* what the run reports (monthly returns; planned transactions)
    pc,         \* where the run is
    cursor,     \* the row a loop of __main__ is at
    err         \* the exception that ended the run, "none" without

resampleVars == <<daily, resampled>>
topVars == <<row, top>>
filterVars == <<cross, screened>>
momentumVars == <<frames, scores>>
runVars == <<mode, membership, provider, index, stocks, tables, sp_500_stocks,
             portfolio, report, pc, cursor, err>>
vars == <<daily, resampled, row, top, cross, screened, frames, scores,
          mode, membership, provider, index, stocks, tables, sp_500_stocks,
          portfolio, report, pc, cursor, err>>

\* Each specification below runs one part of the program; the variables of
\* the other parts rest at these values.
IdleResample == daily = <<>> /\ resampled = <<>>
IdleTop == row = <<>> /\ top = [err |-> "idle", symbols |-> <<>>]
IdleFilter == cross = <<>> /\ screened = <<>>
IdleMomentum == frames = <<>> /\ scores = <<>>
IdleRun ==
    /\ mode = "idle" /\ membership = <<>> /\ provider = <<>> /\ index = <<>>
    /\ stocks = <<>> /\ tables = <<>> /\ sp_500_stocks = <<>> /\ portfolio = <<>>
    /\ report = <<>> /\ pc = "idle" /\ cursor = 0 /\ err = "none"

-----------------------------------------------------------------------------
(* Cells *)

NaN == <<>>
Def(v) == <<v>>
IsNaN(c) == c = NaN
Val(c) == c[1]

\* pandas comparisons: false as soon as one side is NaN
Gt(a, b) == ~IsNaN(a) /\ ~IsNaN(b) /\ Val(a) > Val(b)
Lt(a, b) == ~IsNaN(a) /\ ~IsNaN(b) /\ Val(a) < Val(b)

Min(a, b) == IF a < b THEN a ELSE b
Max(a, b) == IF a > b THEN a ELSE b

-----------------------------------------------------------------------------
(* resample_stocks_to_month                                                *)
(* A daily frame is a sequence of rows [date, Open, Close, beta, changes], *)
(* date = <<year, month, day>>, in the order the frame holds them.         *)

\* Date.dt.strftime("%y-%m"): two-digit year, month
MonthLabel(date) == <<date[1] % 100, date[2]>>

\* order of dates, and of "yy-mm" labels (zero padded, so as tuples)
TupleLt(a, b) ==
    \E i \in 1..Len(a) : /\ a[i] < b[i]
                         /\ \A j \in 1..(i - 1) : a[j] = b[j]

\* agg "sum" skips NaN
RECURSIVE SumCells(_)
SumCells(cells) ==
    IF cells = <<>> THEN 0
    ELSE (IF IsNaN(Head(cells)) THEN 0 ELSE Val(Head(cells))) + SumCells(Tail(cells))

GroupRows(df, label) == SelectSeq(df, LAMBDA r : MonthLabel(r.date) = label)

\* A mutant: Open=("Open", "last") in place of ("Open", "first").
AggMonthOpenLast(g, label) ==
    [Date |-> g[Len(g)].date, month |-> label,
     Open |-> g[Len(g)].Open, Close |-> g[Len(g)].Close, beta |-> g[Len(g)].beta,
     changes |-> SumCells([i \in 1..Len(g) |-> g[i].changes])]

\* .agg(Date last, Open first, Close last, beta last, changes sum) of one
\* group: first and last are the group's first and last rows as the frame
\* holds them (groupby keeps the rows of a group in frame order).
AggMonth(g, label) ==
    [Date |-> g[Len(g)].date, month |-> label,
     Open |-> g[1].Open, Close |-> g[Len(g)].Close, beta |-> g[Len(g)].beta,
     changes |-> SumCells([i \in 1..Len(g) |-> g[i].changes])]

\* .reset_index().set_index("Date").sort_index(): rows ascending by Date
RECURSIVE SortByDate(_)
SortByDate(rows) ==
    IF rows = {} THEN <<>>
    ELSE LET first == CHOOSE r \in rows :
                         \A o \in rows \ {r} : ~TupleLt(o.Date, r.Date)
         IN <<first>> \o SortByDate(rows \ {first})

resample_stocks_to_month(df) ==
    LET labels == {MonthLabel(df[i].date) : i \in 1..Len(df)}
    IN SortByDate({AggMonth(GroupRows(df, l), l) : l \in labels})

-----------------------------------------------------------------------------
(* Specification SpecResample: resample_stocks_to_month over bounded daily *)
(* frames, rows in any order.                                              *)

MaxRows == 3

DailyDates == {<<2016, 12, 29>>, <<2016, 12, 30>>,
               <<2017, 1, 3>>, <<2017, 1, 4>>, <<2017, 2, 1>>}
Bars == {[Open |-> 1, Close |-> 2, changes |-> Def(1)],
         [Open |-> 2, Close |-> 1, changes |-> Def(-1)],
         [Open |-> 4, Close |-> 4, changes |-> NaN]}
Betas == {Def(1), Def(2)}

InitResample ==
    /\ daily = <<>> /\ resampled = <<>>
    /\ IdleTop /\ IdleFilter /\ IdleMomentum /\ IdleRun

\* the frame holds one more daily bar; max_beta's merge on "month" gives every
\* row of a month the month's one beta
AppendBar ==
    /\ resampled = <<>>
    /\ Len(daily) < MaxRows
    /\ \E d \in DailyDates, b \in Bars, beta \in Betas :
          /\ \A i \in 1..Len(daily) : daily[i].date # d
          /\ \A i \in 1..Len(daily) :
                MonthLabel(daily[i].date) = MonthLabel(d) => daily[i].beta = beta
          /\ daily' = Append(daily, [date |-> d, Open |-> b.Open, Close |-> b.Close,
                                     beta |-> beta, changes |-> b.changes])
    /\ UNCHANGED <<resampled, topVars, filterVars, momentumVars, runVars>>

Resample ==
    /\ resampled = <<>>
    /\ daily # <<>>
    /\ resampled' = resample_stocks_to_month(daily)
    /\ UNCHANGED <<daily, topVars, filterVars, momentumVars, runVars>>

NextResample == AppendBar \/ Resample

SpecResample == InitResample /\ [][NextResample]_vars

Chronological(df) == \A i, j \in 1..Len(df) : i < j => TupleLt(df[i].date, df[j].date)

DaysOf(df, label) == {i \in 1..Len(df) : MonthLabel(df[i].date) = label}
FirstDay(df, label) ==
    CHOOSE i \in DaysOf(df, label) :
        \A j \in DaysOf(df, label) \ {i} : TupleLt(df[i].date, df[j].date)
LastDay(df, label) ==
    CHOOSE i \in DaysOf(df, label) :
        \A j \in DaysOf(df, label) \ {i} : TupleLt(df[j].date, df[i].date)

FirstOpenLastClose(df, out) ==
    /\ {out[k].month : k \in 1..Len(out)} = {MonthLabel(df[i].date) : i \in 1..Len(df)}
    /\ \A k \in 1..Len(out) :
          /\ out[k].Open = df[FirstDay(df, out[k].month)].Open
          /\ out[k].Close = df[LastDay(df, out[k].month)].Close
          /\ out[k].beta = df[LastDay(df, out[k].month)].beta

\* C8 as stated: for every month of the daily series the emitted row's open
\* is the chronologically first day's open and its close and beta the
\* chronologically last day's, whatever the order of the input rows.
C8_AnyOrder == resampled # <<>> => FirstOpenLastClose(daily, resampled)

\* C8 amended: the same, for input rows in chronological order.
C8_Chronological ==
    (resampled # <<>> /\ Chronological(daily)) => FirstOpenLastClose(daily, resampled)

\* C8's case: a chronological frame with a month of two days that differ in
\* open and close has been resampled.
C8_Witness ==
    /\ resampled # <<>>
    /\ Chronological(daily)
    /\ \E i, j \in 1..Len(daily) :
          /\ i # j
          /\ MonthLabel(daily[i].date) = MonthLabel(daily[j].date)
          /\ daily[i].Open # daily[j].Open
          /\ daily[i].Close # daily[j].Close

-----------------------------------------------------------------------------
(* get_top_stocks                                                          *)
(* A month row is a one-column frame: a sequence of <<label, cell>>, the   *)
(* labels "month", "Close", "sma" first and one label per symbol after.    *)

MAX_STOCKS == 10

Labels(df) == {df[i][1] : i \in 1..Len(df)}

\* Series.dropna(): the caller's `.iloc[m].dropna().to_frame()`
DropNa(df) == SelectSeq(df, LAMBDA r : ~IsNaN(r[2]))

\* DataFrame.drop(labels): the rows with other labels, in order
DropLabels(df, ls) == SelectSeq(df, LAMBDA r : r[1] \notin ls)

\* df[df.beta > 0]
PositiveRows(df) == SelectSeq(df, LAMBDA r : Gt(r[2], Def(0)))

\* One insertion of the sort behind sort_values("beta"): ascending by value.
\* The order of equal values is the sort routine's business (numpy's default
\* kind is not stable), so both orders are outcomes: ties = "after" keeps the
\* input order of equal values, ties = "before" reverses it.
RECURSIVE InsertSorted(_, _, _)
InsertSorted(sorted, r, ties) ==
    IF sorted = <<>> THEN <<r>>
    ELSE LET h == Head(sorted)
             goesFirst == IF ties = "after" THEN Val(r[2]) < Val(h[2])
                                            ELSE Val(r[2]) <= Val(h[2])
         IN IF goesFirst THEN <<r>> \o sorted
            ELSE <<h>> \o InsertSorted(Tail(sorted), r, ties)

RECURSIVE SortValues(_, _)
SortValues(df, ties) ==
    IF df = <<>> THEN <<>>
    ELSE InsertSorted(SortValues(SubSeq(df, 1, Len(df) - 1), ties),
                      df[Len(df)], ties)

\* DataFrame.tail(n)
TailRows(df, n) == SubSeq(df, Max(1, Len(df) - n + 1), Len(df))

SymbolColumn(df) == [i \in 1..Len(df) |-> df[i][1]]

IndexLabels == {"month", "Close", "sma"}

\* A mutant: tail(MAX_STOCKS) replaced by head(MAX_STOCKS), the lowest scores.
get_top_stocks_head(df, ties) ==
    IF ~(IndexLabels \subseteq Labels(df))
    THEN [err |-> "KeyError", symbols |-> <<>>]
    ELSE LET sorted == SortValues(PositiveRows(DropLabels(df, IndexLabels)), ties)
         IN [err |-> "none",
             symbols |-> SymbolColumn(SubSeq(sorted, 1, Min(MAX_STOCKS, Len(sorted))))]

\* get_top_stocks(df): drop(["month","Close","sma"]) raises KeyError when a
\* label is missing (the caller's dropna removed an undefined sma).
get_top_stocks(df, ties) ==
    IF ~(IndexLabels \subseteq Labels(df))
    THEN [err |-> "KeyError", symbols |-> <<>>]
    ELSE LET sorted == SortValues(PositiveRows(DropLabels(df, IndexLabels)), ties)
         IN [err |-> "none",
             symbols |-> SymbolColumn(TailRows(sorted, MAX_STOCKS))]

Range(s) == {s[i] : i \in 1..Len(s)}

-----------------------------------------------------------------------------
(* Specification SpecTop: get_top_stocks over bounded month rows.          *)

MaxColumns == 11       \* symbol columns of a row: one more than MAX_STOCKS

ColumnNames == <<"s01", "s02", "s03", "s04", "s05", "s06", "s07",
                 "s08", "s09", "s10", "s11", "s12", "s13", "s14">>

PositiveScores == {Def(1), Def(2)}
IneligibleScores == {NaN, Def(0)}

RowHeader == << <<"month", <<17, 1>>>>, <<"Close", Def(2)>>, <<"sma", Def(1)>> >>

SymbolRows(df) == DropLabels(df, IndexLabels)
Ineligible(df) == {i \in 1..Len(df) : df[i][1] \notin IndexLabels
                                       /\ ~Gt(df[i][2], Def(0))}

InitTop ==
    /\ row = RowHeader
    /\ top = [err |-> "idle", symbols |-> <<>>]
    /\ IdleResample /\ IdleFilter /\ IdleMomentum /\ IdleRun

\* the table gains one symbol column (prepare_stocks' merge), read for this month
AddColumn ==
    /\ top.err = "idle"
    /\ Len(SymbolRows(row)) < Min(MaxColumns, Len(ColumnNames))
    /\ \E c \in PositiveScores \cup IneligibleScores :
          \* at most one undefined or non-positive column per modelled row
          /\ c \in IneligibleScores => Ineligible(row) = {}
          /\ row' = Append(row, <<ColumnNames[Len(SymbolRows(row)) + 1], c>>)
    /\ UNCHANGED <<top, resampleVars, filterVars, momentumVars, runVars>>

\* top_stocks = get_top_stocks(sp_500_stocks.iloc[month].dropna().to_frame())
SelectTop ==
    /\ top.err = "idle"
    /\ \E ties \in {"after", "before"} :
          top' = get_top_stocks(DropNa(row), ties)
    /\ UNCHANGED <<row, resampleVars, filterVars, momentumVars, runVars>>

NextTop == AddColumn \/ SelectTop

SpecTop == InitTop /\ [][NextTop]_vars

Score(df, s) == LET i == CHOOSE i \in 1..Len(df) : df[i][1] = s IN df[i][2]
Eligible(df) == {s \in Labels(df) \ IndexLabels : Gt(Score(df, s), Def(0))}

\* C2: get_top_stocks returns at most 10 symbols, each with a defined and
\* strictly positive score_12; every returned symbol scores at least as high
\* as every eligible symbol left out; with fewer than 10 eligible symbols
\* (none included) it returns exactly the eligible ones, and raises nothing.
C2_TopTen ==
    top.err # "idle" =>
        /\ top.err = "none"
        /\ Len(top.symbols) <= MAX_STOCKS
        /\ Cardinality(Range(top.symbols)) = Len(top.symbols)
        /\ Range(top.symbols) \subseteq Eligible(row)
        /\ \A s \in Range(top.symbols) : \A u \in Eligible(row) \ Range(top.symbols) :
              Val(Score(row, s)) >= Val(Score(row, u))
        /\ Cardinality(Eligible(row)) <= MAX_STOCKS
              => Range(top.symbols) = Eligible(row)
        /\ Cardinality(Eligible(row)) > MAX_STOCKS
              => Len(top.symbols) = MAX_STOCKS

\* C2's case: more eligible symbols than MAX_STOCKS, two score levels among
\* them, and the call has returned.
C2_Witness ==
    /\ top.err = "none"
    /\ Cardinality(Eligible(row)) > MAX_STOCKS
    /\ \E s, u \in Eligible(row) : Val(Score(row, s)) < Val(Score(row, u))
    /\ \E u \in Eligible(row) : u \notin Range(top.symbols)

-----------------------------------------------------------------------------
(* momentum                                                                *)
(* A monthly frame is a sequence of rows [ym, month, Open, Close, beta,    *)
(* changes], one per month the symbol has bars in, ascending: ym is the    *)
(* calendar month <<year, month>> of the bars and month its "%y-%m" label. *)
(* momentum adds score, the columns changes_3 .. changes_12.  Closes are   *)
(* 1, 2 or 4, so 4 * roc is an integer, and a score is kept in units of    *)
(* 1/ScoreDen: dircount * ScoreDen + 4 * roc stands for dircount+roc/1000. *)

Intervals == {3, 6, 9, 12}
RocDen == 2 * 2
ScoreDen == 1000 * RocDen

\* tools.roc(series, interval), times RocDen: the fractional change of the
\* close against the close `interval` rows earlier, undefined in the first
\* `interval` rows
Roc(df, t, interval) ==
    IF t <= interval \/ t > Len(df) THEN NaN
    ELSE Def((RocDen * (df[t].Close - df[t - interval].Close)) \div df[t - interval].Close)

\* df.changes.rolling(interval).sum(): undefined in the first interval-1 rows
RollingSum(df, t, interval) ==
    IF t < interval \/ t > Len(df) THEN NaN
    ELSE Def(SumCells([k \in 1..interval |-> Def(df[t - interval + k].changes)]))

\* np.where((roc > 0) & (changes_i > 0), changes_i + roc / 1000, changes_i)
Composite(roc, dircount) ==
    IF IsNaN(dircount) THEN NaN
    ELSE IF Gt(roc, Def(0)) /\ Gt(dircount, Def(0))
         THEN Def(Val(dircount) * ScoreDen + Val(roc))
         ELSE Def(Val(dircount) * ScoreDen)

\* A mutant: the direction count is not shifted (.shift(-1) left out).
ScoreAtUnshifted(df, t, interval, m) ==
    Composite(IF m = "backtest" THEN Roc(df, t + 1, interval) ELSE Roc(df, t, interval),
              RollingSum(df, t, interval))

\* changes_<interval> of row t.  .shift(-1) gives row t the value of row t+1
\* and the last row NaN.  The backtest shifts roc and the rolling sum, the
\* screener the rolling sum only.
ScoreAt(df, t, interval, m) ==
    Composite(IF m = "backtest" THEN Roc(df, t + 1, interval) ELSE Roc(df, t, interval),
              RollingSum(df, t + 1, interval))

momentum(df, m) ==
    [t \in 1..Len(df) |->
        [ym |-> df[t].ym, month |-> df[t].month,
         Open |-> df[t].Open, Close |-> df[t].Close,
         beta |-> df[t].beta, changes |-> df[t].changes,
         score |-> [i \in Intervals |-> ScoreAt(df, t, i, m)]]]

-----------------------------------------------------------------------------
(* Monthly frames of the model: a symbol's months are consecutive calendar *)
(* months but for one optional month without bars; closes follow a trend   *)
(* and the monthly net direction is one value.                             *)

\* the first month of the modelled index, <<year, month>>
IndexStart == <<2016, 1>>

\* the n-th calendar month counted from IndexStart, as <<year, month>>
Calendar(n) ==
    <<IndexStart[1] + ((IndexStart[2] + n - 2) \div 12),
      ((IndexStart[2] + n - 2) % 12) + 1>>
\* its "%y-%m" label
Label(n) == <<Calendar(n)[1] % 100, Calendar(n)[2]>>

Trends == {"up", "down", "flat"}
TrendClose(trend, n) ==
    CASE trend = "up" -> IF n <= 4 THEN 1 ELSE IF n <= 9 THEN 2 ELSE 4
      [] trend = "down" -> IF n <= 4 THEN 4 ELSE IF n <= 9 THEN 2 ELSE 1
      [] OTHER -> 2

RECURSIVE SeqOfSet(_)
SeqOfSet(S) ==
    \* a set of numbers, ascending
    IF S = {} THEN <<>>
    ELSE LET least == CHOOSE x \in S : \A y \in S : x <= y
         IN <<least>> \o SeqOfSet(S \ {least})

MonthlyFrame(months, trend, direction, beta) ==
    LET ms == SeqOfSet(months)
    IN [t \in 1..Len(ms) |->
          [ym |-> Calendar(ms[t]), month |-> Label(ms[t]),
           Open |-> TrendClose(trend, ms[t] - 1),
           Close |-> TrendClose(trend, ms[t]), beta |-> beta, changes |-> direction]]

-----------------------------------------------------------------------------
(* Specification SpecMomentum: the backtest's momentum over a frame and    *)
(* over the same frame with the bars of one month altered.                 *)

MomentumMonths == 14

Directions == {-1, 0, 2}
Closes == {1, 2, 4}

InitMomentum ==
    /\ \E trend \in Trends, direction \in Directions :
       \E at \in 1..MomentumMonths, close \in Closes, changes \in Directions :
          LET base == MonthlyFrame(1..MomentumMonths, trend, direction, Def(1))
          IN /\ <<close, changes>> # <<base[at].Close, base[at].changes>>
             /\ frames = [base |-> base, at |-> at,
                          altered |-> [base EXCEPT ![at].Close = close,
                                                   ![at].changes = changes]]
    /\ scores = <<>>
    /\ IdleResample /\ IdleTop /\ IdleFilter /\ IdleRun

\* prepare_stocks: df = momentum(df), on either frame
Momentum ==
    /\ scores = <<>>
    /\ scores' = [base |-> momentum(frames.base, "backtest"),
                  altered |-> momentum(frames.altered, "backtest")]
    /\ UNCHANGED <<frames, resampleVars, topVars, filterVars, runVars>>

NextMomentum == Momentum

SpecMomentum == InitMomentum /\ [][NextMomentum]_vars

\* C3: the score_h the backtest scorer attaches to month m does not include
\* month m's own return: it is the same when only month m's bars (its net
\* direction and its close) are altered, for every horizon h.
C3_NoOwnMonth ==
    scores # <<>> =>
        \A h \in Intervals :
            scores.base[frames.at].score[h] = scores.altered[frames.at].score[h]

-----------------------------------------------------------------------------
(* The cross-sectional filter of prepare_stocks                            *)
(* A table maps a month label to a row, a row maps a symbol to a cell.     *)
(* cols is the tables' column order.                                       *)

QUANTILE_LOW_MOMENTUM == 15
QUANTILE_HIGH_BETA_BACKTEST == 85
QUANTILE_HIGH_BETA_SCREENER == 90

QUANTILE_HIGH_BETA(m) ==
    IF m = "backtest" THEN QUANTILE_HIGH_BETA_BACKTEST ELSE QUANTILE_HIGH_BETA_SCREENER

\* the defined values of a row, ascending
RECURSIVE SortInts(_)
SortInts(bag) ==
    \* bag: a set of <<symbol, value>>, one per defined cell
    IF bag = {} THEN <<>>
    ELSE LET least == CHOOSE e \in bag : \A o \in bag : e[2] <= o[2]
         IN <<least[2]>> \o SortInts(bag \ {least})

DefinedValues(r) == SortInts({<<s, Val(r[s])>> : s \in {t \in DOMAIN r : ~IsNaN(r[t])}})

\* Series.quantile(pct/100), times 100: NaN is skipped, an all-NaN row gives
\* NaN, and the value is interpolated linearly between the two order
\* statistics around position (n-1)*pct/100.
Quantile100(r, pct) ==
    LET v == DefinedValues(r)
        n == Len(v)
        lo == ((n - 1) * pct) \div 100
        rem == ((n - 1) * pct) % 100
    IN IF n = 0 THEN NaN
       ELSE IF rem = 0 THEN Def(100 * v[lo + 1])
       ELSE Def(100 * v[lo + 1] + rem * (v[lo + 2] - v[lo + 1]))

Times100(c) == IF IsNaN(c) THEN NaN ELSE Def(100 * Val(c))

\* period_changes.columns[period_changes.loc[month] < ....quantile(q)].tolist()
BelowQuantile(cols, r, pct) ==
    SelectSeq(cols, LAMBDA s : Lt(Times100(r[s]), Quantile100(r, pct)))

\* beta_changes.columns[beta_changes.loc[month] > ....quantile(q)].tolist()
AboveQuantile(cols, r, pct) ==
    SelectSeq(cols, LAMBDA s : Gt(Times100(r[s]), Quantile100(r, pct)))

\* A mutant: the update of neg_symbols for period 9 forgets period 6's list
\* (neg_symbols.get(month, []) dropped from the comprehension).
NegSymbolsOverwrite(cols, t, pctBeta) ==
    [m \in DOMAIN t.changes6 |->
        BelowQuantile(cols, t.changes9[m], QUANTILE_LOW_MOMENTUM)
        \o AboveQuantile(cols, t.beta[m], pctBeta)]

\* neg_symbols after the loops over periods 6 and 9 and over beta: per month
\* the three lists, appended
NegSymbols(cols, t, pctBeta) ==
    [m \in DOMAIN t.changes6 |->
        BelowQuantile(cols, t.changes6[m], QUANTILE_LOW_MOMENTUM)
        \o BelowQuantile(cols, t.changes9[m], QUANTILE_LOW_MOMENTUM)
        \o AboveQuantile(cols, t.beta[m], pctBeta)]

\* changes[12].loc[month, symbol] = np.nan for every listed symbol
ApplyNeg(changes12, neg) ==
    [m \in DOMAIN changes12 |->
        [s \in DOMAIN changes12[m] |->
            IF s \in Range(neg[m]) THEN NaN ELSE changes12[m][s]]]

-----------------------------------------------------------------------------
(* Specification SpecFilter: the filter over bounded cross-sections, in    *)
(* both modes.  The first month's cells are drawn, the second month is a   *)
(* fixed row beside it.                                                    *)

NumFilterSymbols == 3

FilterSymbols == SubSeq(ColumnNames, 1, NumFilterSymbols)
FilterCells == {Def(1), Def(2)}
FilterMonth == <<17, 1>>
OtherMonth == <<17, 2>>

\* the second month: s01 is lowest in changes_6 and has no beta, the last
\* symbol is highest in beta
OtherRow6 == [s \in Range(FilterSymbols) |-> IF s = "s01" THEN Def(1) ELSE Def(3)]
OtherRowBeta ==
    [s \in Range(FilterSymbols) |->
        IF s = FilterSymbols[NumFilterSymbols] THEN Def(9)
        ELSE IF s = "s01" THEN NaN ELSE Def(3)]
OtherRowFlat == [s \in Range(FilterSymbols) |-> Def(4)]

InitFilter ==
    /\ \E m \in {"backtest", "screener"} :
       \E r6 \in [Range(FilterSymbols) -> FilterCells \cup {NaN}] :
       \E r9 \in [Range(FilterSymbols) -> FilterCells] :
       \E rb \in [Range(FilterSymbols) -> FilterCells] :
          cross = [mode |-> m,
                   changes6 |-> (FilterMonth :> r6 @@ OtherMonth :> OtherRow6),
                   changes9 |-> (FilterMonth :> r9 @@ OtherMonth :> OtherRowFlat),
                   beta |-> (FilterMonth :> rb @@ OtherMonth :> OtherRowBeta),
                   changes12 |-> (FilterMonth :> [s \in Range(FilterSymbols) |-> Def(7)]
                                  @@ OtherMonth :> OtherRowFlat)]
    /\ screened = <<>>
    /\ IdleResample /\ IdleTop /\ IdleMomentum /\ IdleRun

\* prepare_stocks, from `neg_symbols = {}` to the return of changes[12]
Filter ==
    /\ screened = <<>>
    /\ LET neg == NegSymbols(FilterSymbols, cross, QUANTILE_HIGH_BETA(cross.mode))
       IN screened' = [neg |-> neg, changes12 |-> ApplyNeg(cross.changes12, neg)]
    /\ UNCHANGED <<cross, resampleVars, topVars, momentumVars, runVars>>

NextFilter == Filter

SpecFilter == InitFilter /\ [][NextFilter]_vars

StrictlyBelow(t, m, s, pct) == Lt(Times100(t[m][s]), Quantile100(t[m], pct))
AtOrBelow(t, m, s, pct) ==
    StrictlyBelow(t, m, s, pct) \/ Times100(t[m][s]) = Quantile100(t[m], pct)
AboveBeta(m, s) ==
    Gt(Times100(cross.beta[m][s]), Quantile100(cross.beta[m], QUANTILE_HIGH_BETA(cross.mode)))

FilteredAs(Excluded(_, _)) ==
    \A m \in DOMAIN cross.changes12 : \A s \in DOMAIN cross.changes12[m] :
        screened.changes12[m][s] =
            IF Excluded(m, s) THEN NaN ELSE cross.changes12[m][s]

\* C5 as stated: a symbol whose score_6 or score_9 is at or below the month's
\* 15th percentile of that score, or whose beta is above the month's high-beta
\* percentile, has its score_12 for the month undefined, and no other
\* symbol's score_12 is changed.
C5_AtOrBelow ==
    screened # <<>> =>
        LET Excluded(m, s) ==
                \/ AtOrBelow(cross.changes6, m, s, QUANTILE_LOW_MOMENTUM)
                \/ AtOrBelow(cross.changes9, m, s, QUANTILE_LOW_MOMENTUM)
                \/ AboveBeta(m, s)
        IN FilteredAs(Excluded)

\* C5 amended: the same with "strictly below" the 15th percentile.
C5_StrictlyBelow ==
    screened # <<>> =>
        LET Excluded(m, s) ==
                \/ StrictlyBelow(cross.changes6, m, s, QUANTILE_LOW_MOMENTUM)
                \/ StrictlyBelow(cross.changes9, m, s, QUANTILE_LOW_MOMENTUM)
                \/ AboveBeta(m, s)
        IN FilteredAs(Excluded)

\* C5's case: in the drawn month one symbol is excluded by score_6 alone,
\* another by beta alone, and a third is kept.
C5_Witness ==
    /\ screened # <<>>
    /\ \E a, b, c \in Range(FilterSymbols) :
          /\ StrictlyBelow(cross.changes6, FilterMonth, a, QUANTILE_LOW_MOMENTUM)
          /\ ~StrictlyBelow(cross.changes9, FilterMonth, a, QUANTILE_LOW_MOMENTUM)
          /\ ~AboveBeta(FilterMonth, a)
          /\ AboveBeta(FilterMonth, b)
          /\ ~StrictlyBelow(cross.changes6, FilterMonth, b, QUANTILE_LOW_MOMENTUM)
          /\ screened.changes12[FilterMonth][a] = NaN
          /\ screened.changes12[FilterMonth][b] = NaN
          /\ screened.changes12[FilterMonth][c] = Def(7)

-----------------------------------------------------------------------------
(* SP_500_stocks: the historical membership table                          *)
(* membership = [loaded, rows]: loaded is whether the file was there       *)
(* (df is not None), rows the snapshots [date, tickers] in file order,     *)
(* ascending by date.                                                      *)

Tickers == {"AAA", "BBB", "CCC"}
Lower(t) == CASE t = "AAA" -> "aaa" [] t = "BBB" -> "bbb" [] t = "CCC" -> "ccc"
SymbolOrder == <<"aaa", "bbb", "ccc">>

TupleLe(a, b) == a = b \/ TupleLt(a, b)

\* get_symbols(year, month, day): None without a table; else the tickers of
\* the last snapshot dated on or before the day; .values[0] of no row raises
\* IndexError
get_symbols(df, year, month, day) ==
    IF ~df.loaded THEN [kind |-> "None", tickers |-> {}]
    ELSE LET df2 == SelectSeq(df.rows, LAMBDA r : TupleLe(r.date, <<year, month, day>>))
         IN IF df2 = <<>> THEN [kind |-> "IndexError", tickers |-> {}]
            ELSE [kind |-> "list", tickers |-> df2[Len(df2)].tickers]

\* all_symbols(): self.df.tickers of None raises AttributeError
all_symbols(df) ==
    IF ~df.loaded THEN [kind |-> "AttributeError", tickers |-> {}]
    ELSE [kind |-> "list",
          tickers |-> UNION {df.rows[i].tickers : i \in 1..Len(df.rows)}]

-----------------------------------------------------------------------------
(* prepare_stocks                                                          *)

NumMonths == 14        \* months of the index, from IndexStart

\* A mutant: the restrictor blanks the symbol's beta only.
RestrictFrameBetaOnly(df, label) ==
    [t \in 1..Len(df) |->
        IF df[t].month = label THEN [df[t] EXCEPT !.beta = NaN] ELSE df[t]]

\* df.loc[df.month == label, "beta"] = np.nan, and the same for changes_3,
\* changes_6, changes_9 and changes_12
RestrictFrame(df, label) ==
    [t \in 1..Len(df) |->
        IF df[t].month = label
        THEN [df[t] EXCEPT !.beta = NaN, !.score = [i \in Intervals |-> NaN]]
        ELSE df[t]]

\* one pass of `for index_date in index.index`, for the symbols of
\* set(stocks.keys()) - set(monthly_stocks)
RestrictMonth(st, monthlyStocks, label) ==
    [s \in DOMAIN st |->
        IF s \in monthlyStocks THEN st[s] ELSE RestrictFrame(st[s], label)]

\* the loop from index month n on; iterating over None raises TypeError
RECURSIVE RestrictFrom(_, _, _)
RestrictFrom(df, st, n) ==
    IF n > NumMonths THEN [err |-> "none", stocks |-> st]
    ELSE LET got == get_symbols(df, Calendar(n)[1], Calendar(n)[2], 1)
         IN CASE got.kind = "None" -> [err |-> "TypeError", stocks |-> st]
              [] got.kind = "IndexError" -> [err |-> "IndexError", stocks |-> st]
              [] OTHER ->
                   RestrictFrom(df,
                                RestrictMonth(st, {Lower(t) : t \in got.tickers}, Label(n)),
                                n + 1)

\* index.merge(df[["month", column]], how="left") for every symbol: the cell
\* of the symbol's row with that month label, NaN without such a row
ColumnOf(r, column) ==
    CASE column = "beta" -> r.beta
      [] column = "changes_6" -> r.score[6]
      [] column = "changes_9" -> r.score[9]
      [] column = "changes_12" -> r.score[12]

Cell(df, label, column) ==
    IF \E t \in 1..Len(df) : df[t].month = label
    THEN ColumnOf(df[CHOOSE t \in 1..Len(df) : df[t].month = label], column)
    ELSE NaN

MergedTable(st, column) ==
    [l \in {Label(n) : n \in 1..NumMonths} |->
        [s \in DOMAIN st |-> Cell(st[s], l, column)]]

MergedTables(st) ==
    [changes6 |-> MergedTable(st, "changes_6"),
     changes9 |-> MergedTable(st, "changes_9"),
     changes12 |-> MergedTable(st, "changes_12"),
     beta |-> MergedTable(st, "beta")]

Columns(st) == SelectSeq(SymbolOrder, LAMBDA s : s \in DOMAIN st)

\* changes[12].reset_index().set_index("Date"): one row per index month, in
\* index order, with the columns month, Close, sma and one per symbol
ReturnedTable(idx, changes12) ==
    [n \in 1..NumMonths |->
        [n |-> n, month |-> Label(n), Close |-> idx[n].Close, sma |-> idx[n].sma,
         scores |-> changes12[Label(n)]]]

-----------------------------------------------------------------------------
(* The run: both programs, from prepare_stocks to the written report.      *)

Symbols == Range(SymbolOrder)

\* what a symbol's bars look like: the months it has no bars in, the trend
\* of its closes, its monthly net direction and its beta
ProfileNames == {"strong", "steady", "gappy", "short", "weak"}
ProfilesOf(s) ==
    CASE s = "aaa" -> ProfileNames
      [] s = "bbb" -> {"strong", "gappy", "weak"}
      [] s = "ccc" -> {"steady", "short"}
ProfileFrame(name) ==
    CASE name = "strong" -> MonthlyFrame(1..NumMonths, "up", 2, Def(1))
      [] name = "steady" -> MonthlyFrame(1..NumMonths, "flat", 2, Def(1))
      [] name = "gappy" ->
            MonthlyFrame((1..NumMonths) \ {NumMonths - 1}, "up", 2, Def(1))
      [] name = "short" -> MonthlyFrame(1..(NumMonths - 1), "up", 2, Def(2))
      [] name = "weak" -> MonthlyFrame(1..NumMonths, "down", -1, Def(3))

\* the index against its 150-day average: above, equal, average undefined
IndexAbove == [Close |-> Def(2), sma |-> Def(1)]
IndexCells == {IndexAbove, [Close |-> Def(2), sma |-> Def(2)],
               [Close |-> Def(2), sma |-> Def(3)],
               [Close |-> Def(2), sma |-> NaN]}

NotLoaded == [loaded |-> FALSE, rows |-> <<>>]
Snapshot(date, tickers) == [date |-> date, tickers |-> tickers]
\* the membership files of the model: none; one snapshot before the index
\* starts; a second one on the 1st or inside the month before the last two;
\* a table whose first snapshot is later than the first index month
Memberships ==
    {NotLoaded}
    \cup {[loaded |-> TRUE, rows |-> <<Snapshot(<<2015, 12, 15>>, t0)>> \o later] :
            t0 \in {{"AAA", "BBB", "CCC"}, {"AAA", "BBB"}},
            later \in {<<>>}
               \cup {<<Snapshot(Calendar(NumMonths - 2) \o <<d>>, {"AAA", "CCC"})>> :
                        d \in {1, 15}}}
    \cup {[loaded |-> TRUE,
           rows |-> <<Snapshot(<<IndexStart[1], IndexStart[2], 15>>, Tickers)>>]}

InitRun ==
    /\ mode \in {"backtest", "screener"}
    /\ membership \in IF mode = "backtest" THEN Memberships ELSE {NotLoaded}
    /\ \E profile \in {f \in [Symbols -> ProfileNames] :
                            \A s \in Symbols : f[s] \in ProfilesOf(s)} :
          provider = [s \in Symbols |-> ProfileFrame(profile[s])]
    /\ \E a, b \in IndexCells :
          LET first == IF mode = "backtest" THEN NumMonths - 2 ELSE NumMonths - 1
          IN index = [n \in 1..NumMonths |->
                        IF n = first THEN a ELSE IF n = first + 1 THEN b
                        ELSE IndexAbove]
    /\ stocks = <<>> /\ tables = <<>> /\ sp_500_stocks = <<>> /\ portfolio = <<>>
    /\ report = <<>> /\ pc = "get_stocks" /\ cursor = 0 /\ err = "none"
    /\ IdleResample /\ IdleTop /\ IdleFilter /\ IdleMomentum

restOfModel == <<resampleVars, topVars, filterVars, momentumVars>>
inputs == <<mode, membership, provider, index>>

\* prepare_stocks: stocks = get_stocks(...).  The backtest asks for
\* sp_500_stocks.all_symbols(), lower-cased by get_stocks; the screener for
\* the current list, here every symbol the provider has.
GetStocks ==
    /\ pc = "get_stocks"
    /\ IF mode = "screener"
       THEN stocks' = provider /\ pc' = "momentum" /\ err' = err
       ELSE LET all == all_symbols(membership)
            IN IF all.kind # "list"
               THEN stocks' = stocks /\ pc' = "aborted" /\ err' = all.kind
               ELSE /\ stocks' = [s \in {Lower(t) : t \in all.tickers} \cap DOMAIN provider
                                    |-> provider[s]]
                    /\ pc' = "momentum" /\ err' = err
    /\ UNCHANGED <<inputs, tables, sp_500_stocks, portfolio, report, cursor, restOfModel>>

\* prepare_stocks: the loop over stocks.items(), whose last step is momentum
PrepareSymbols ==
    /\ pc = "momentum"
    /\ stocks' = [s \in DOMAIN stocks |-> momentum(stocks[s], mode)]
    /\ pc' = IF mode = "backtest" THEN "restrict" ELSE "merge"
    /\ UNCHANGED <<inputs, tables, sp_500_stocks, portfolio, report, cursor, err,
                   restOfModel>>

\* prepare_stocks of the backtest: the loop over index.index
Restrict ==
    /\ pc = "restrict"
    /\ LET r == RestrictFrom(membership, stocks, 1)
       IN IF r.err # "none"
          THEN stocks' = stocks /\ pc' = "aborted" /\ err' = r.err
          ELSE stocks' = r.stocks /\ pc' = "merge" /\ err' = err
    /\ UNCHANGED <<inputs, tables, sp_500_stocks, portfolio, report, cursor, restOfModel>>

\* prepare_stocks: the merges into changes[6], changes[9], changes[12], beta
Merge ==
    /\ pc = "merge"
    /\ tables' = MergedTables(stocks)
    /\ pc' = "filter"
    /\ UNCHANGED <<inputs, stocks, sp_500_stocks, portfolio, report, cursor, err,
                   restOfModel>>

\* prepare_stocks: neg_symbols, their scores blanked, and the return; the
\* function's locals end with it
ExcludeSymbols ==
    /\ pc = "filter"
    /\ LET neg == NegSymbols(Columns(stocks), tables, QUANTILE_HIGH_BETA(mode))
       IN sp_500_stocks' = ReturnedTable(index, ApplyNeg(tables.changes12, neg))
    /\ stocks' = <<>> /\ tables' = <<>>
    /\ pc' = "main"
    /\ UNCHANGED <<inputs, portfolio, report, cursor, err, restOfModel>>

-----------------------------------------------------------------------------
(* __main__ of the backtest                                                *)

SliceStart == <<2016, 12, 1>>      \* sp_500_stocks["2016-12-01":]
MaxClosure == 4    \* the last trading day is one of the last MaxClosure days

IsLeap(y) == (y % 4 = 0 /\ y % 100 # 0) \/ y % 400 = 0
DaysInMonth(y, m) ==
    IF m = 2 THEN (IF IsLeap(y) THEN 29 ELSE 28)
    ELSE IF m \in {4, 6, 9, 11} THEN 30 ELSE 31

\* date + timedelta(days=k)
RECURSIVE AddDays(_, _)
AddDays(date, k) ==
    LET y == date[1]
        m == date[2]
        d == date[3] + k
    IN IF d <= DaysInMonth(y, m) THEN <<y, m, d>>
       ELSE AddDays(IF m = 12 THEN <<y + 1, 1, 0>> ELSE <<y, m + 1, 0>>,
                    d - DaysInMonth(y, m))

\* A mutant: the position is filed under the month of the row itself.
PositionMonthNoLag(date) == <<date[1], date[2]>>

\* f"{(name + timedelta(days=10)).year}-{(name + timedelta(days=10)).month:0>2}"
PositionMonth(date) == LET d == AddDays(date, 10) IN <<d[1], d[2]>>

\* the Date of index month n: the last trading day of a month of the index
LastTradingDays(n) ==
    LET y == Calendar(n)[1]
        m == Calendar(n)[2]
    IN {<<y, m, d>> : d \in (DaysInMonth(y, m) - MaxClosure + 1)..DaysInMonth(y, m)}

\* sp_500_stocks.iloc[i] as a Series: month, Close, sma, then the symbols
RowSeries(r) ==
    LET cols == SelectSeq(SymbolOrder, LAMBDA s : s \in DOMAIN r.scores)
    IN << <<"month", r.month>>, <<"Close", r.Close>>, <<"sma", r.sma>> >>
       \o [i \in 1..Len(cols) |-> <<cols[i], r.scores[cols[i]]>>]

\* sp_500_stocks.month.max()
MaxMonth(df) ==
    CHOOSE l \in {df[i].month : i \in 1..Len(df)} :
        \A i \in 1..Len(df) : TupleLe(df[i].month, l)

\* Python's round-half-even of num / den, den > 0
RoundDiv(num, den) ==
    LET q == num \div den
        r == num - q * den
    IN IF 2 * r < den THEN q
       ELSE IF 2 * r > den THEN q + 1
       ELSE IF q % 2 = 0 THEN q ELSE q + 1

\* the rows on or after SliceStart; a month-end Date is on or after the 1st
\* of a month exactly when its month is that month or a later one
Slice ==
    /\ pc = "main" /\ mode = "backtest"
    /\ sp_500_stocks' = SelectSeq(sp_500_stocks,
            LAMBDA r : TupleLe(<<SliceStart[1], SliceStart[2]>>, Calendar(r.n)))
    /\ cursor' = 1
    /\ pc' = "select"
    /\ UNCHANGED <<inputs, stocks, tables, portfolio, report, err, restOfModel>>

\* one pass of `for month in range(len(sp_500_stocks))`; the row's Date is
\* read here only, so the day of the month is drawn here
SelectMonth ==
    /\ pc = "select" /\ cursor <= Len(sp_500_stocks)
    /\ LET r == sp_500_stocks[cursor]
       IN IF Gt(r.Close, r.sma) /\ r.month # MaxMonth(sp_500_stocks)
          THEN \E date \in LastTradingDays(r.n), ties \in {"after", "before"} :
                  LET top_stocks == get_top_stocks(DropNa(RowSeries(r)), ties).symbols
                  IN portfolio' = portfolio \o
                        [i \in 1..Len(top_stocks) |->
                            [month |-> PositionMonth(date), symbol |-> top_stocks[i],
                             selected |-> Calendar(r.n),
                             buy |-> NaN, sell |-> NaN, profit |-> NaN, invest |-> NaN]]
          ELSE portfolio' = portfolio
    /\ cursor' = cursor + 1
    /\ UNCHANGED <<inputs, stocks, tables, sp_500_stocks, report, pc, err, restOfModel>>

\* portfolio = pd.DataFrame(portfolio); stocks = get_stocks(...): a frame of
\* no rows has no column symbol
Download ==
    /\ pc = "select" /\ cursor > Len(sp_500_stocks)
    /\ IF portfolio = <<>>
       THEN stocks' = stocks /\ pc' = "aborted" /\ err' = "AttributeError"
       ELSE /\ stocks' = [s \in {portfolio[i].symbol : i \in 1..Len(portfolio)}
                            |-> provider[s]]
            /\ pc' = "lookup" /\ err' = err
    /\ UNCHANGED <<inputs, tables, sp_500_stocks, portfolio, report, cursor, restOfModel>>

\* df_month.loc[position.month]: the symbol's bars of that month, Open the
\* first open and Close the last close; KeyError without such bars
HasMonth(df, month) == \E t \in 1..Len(df) : df[t].ym = month
MonthOf(df, month) == df[CHOOSE t \in 1..Len(df) : df[t].ym = month]

\* the body of `for pos, position in portfolio.iterrows()`
LookupPosition(p, df) ==
    IF HasMonth(df, p.month)
    THEN LET b == MonthOf(df, p.month)
         IN [p EXCEPT !.buy = Def(b.Open), !.sell = Def(b.Close),
                      !.profit = Def(RoundDiv((b.Close - b.Open) * 1000, b.Open))]
    ELSE p

Lookup ==
    /\ pc = "lookup"
    /\ portfolio' = [i \in 1..Len(portfolio) |->
                        LookupPosition(portfolio[i], stocks[portfolio[i].symbol])]
    /\ pc' = "aggregate"
    /\ UNCHANGED <<inputs, stocks, tables, sp_500_stocks, report, cursor, err, restOfModel>>

RECURSIVE SumSeq(_)
SumSeq(xs) == IF xs = <<>> THEN 0 ELSE Head(xs) + SumSeq(Tail(xs))

Shares(p) == 10000 \div Val(p.buy)

\* portfolio.groupby("month").agg(...) and monthly["earning"], in tenths of
\* a percent
Monthly(df) ==
    [m \in {df[i].month : i \in 1..Len(df)} |->
        LET g == SelectSeq(df, LAMBDA p : p.month = m)
            Invest == SumSeq([i \in 1..Len(g) |-> Val(g[i].invest)])
            Profit == SumSeq([i \in 1..Len(g) |-> Val(g[i].profit)])
        IN [Positions |-> Len(g), Invest |-> Invest, Profit |-> Profit,
            earning |-> RoundDiv((Profit - Invest) * 1000, Invest)]]

\* invest, profit and the monthly table.  The invest line is inside a try
\* whose handler reads portfolio["buy"]; the profit line is outside any try:
\* without a column buy it raises KeyError, with an undefined buy astype(int)
\* raises ValueError.
Aggregate ==
    /\ pc = "aggregate"
    /\ IF \A i \in 1..Len(portfolio) : IsNaN(portfolio[i].buy)
       THEN /\ pc' = "aborted" /\ err' = "KeyError"
            /\ UNCHANGED <<portfolio, report>>
       ELSE IF \E i \in 1..Len(portfolio) : IsNaN(portfolio[i].buy)
       THEN /\ pc' = "aborted" /\ err' = "ValueError"
            /\ UNCHANGED <<portfolio, report>>
       ELSE LET done == [i \in 1..Len(portfolio) |->
                           [portfolio[i] EXCEPT
                              !.invest = Def(Shares(portfolio[i]) * Val(portfolio[i].buy)),
                              !.profit = Def(Shares(portfolio[i]) * Val(portfolio[i].sell))]]
            IN /\ portfolio' = done
               /\ report' = [monthly |-> Monthly(done)]
               /\ pc' = "done" /\ err' = err
    /\ UNCHANGED <<inputs, stocks, tables, sp_500_stocks, cursor, restOfModel>>

-----------------------------------------------------------------------------
(* __main__ of the screener                                                *)

\* the gate on the last index row, then the selections of the last two rows
\* and their differences; nothing is written when the gate is closed
Screen ==
    /\ pc = "main" /\ mode = "screener"
    /\ LET last == Len(sp_500_stocks)
       IN IF Gt(index[NumMonths].Close, index[NumMonths].sma)
          THEN \E t1, t2 \in {"after", "before"} :
                 LET current_month ==
                        get_top_stocks(DropNa(RowSeries(sp_500_stocks[last - 1])), t1)
                     next_month ==
                        get_top_stocks(DropNa(RowSeries(sp_500_stocks[last])), t2)
                     current == Range(current_month.symbols)
                     next == Range(next_month.symbols)
                 IN IF current_month.err # "none" \/ next_month.err # "none"
                    THEN pc' = "aborted" /\ err' = "KeyError" /\ report' = report
                    ELSE /\ report' = [current |-> current, next |-> next,
                                       unchanged |-> current \cap next,
                                       removed |-> current \ next,
                                       added |-> next \ current]
                         /\ pc' = "done" /\ err' = err
          ELSE pc' = "done" /\ err' = err /\ report' = report
    /\ UNCHANGED <<inputs, stocks, tables, sp_500_stocks, portfolio, cursor, restOfModel>>

Next ==
    \/ GetStocks \/ PrepareSymbols \/ Restrict \/ Merge \/ ExcludeSymbols
    \/ Slice \/ SelectMonth \/ Download \/ Lookup \/ Aggregate
    \/ Screen

Spec == InitRun /\ [][Next]_vars

-----------------------------------------------------------------------------
(* Properties of the run                                                   *)

Positions == {portfolio[i] : i \in 1..Len(portfolio)}
MonthNumber(ym) == CHOOSE n \in 1..NumMonths : Calendar(n) = ym
Above(n) == Gt(index[n].Close, index[n].sma)
Written == mode = "screener" /\ pc = "done" /\ Above(NumMonths)

\* C1: every month a selection is produced for has the index close above
\* its 150-day average in that same month: the month of every position of
\* the backtest, and the month of the screener's 'current' and of its
\* 'next' selection whenever that selection is not empty.
C1_GateSameMonth ==
    /\ mode = "backtest" => \A p \in Positions : Above(MonthNumber(p.selected))
    /\ Written =>
          /\ report.current # {} => Above(NumMonths - 1)
          /\ report.next # {} => Above(NumMonths)

\* members(m): the tickers of the latest snapshot dated on or before the
\* first day of index month n
SnapshotsBy(n) ==
    {i \in 1..Len(membership.rows) :
        TupleLe(membership.rows[i].date, Calendar(n) \o <<1>>)}
Members(n) ==
    LET latest == CHOOSE i \in SnapshotsBy(n) : \A j \in SnapshotsBy(n) : j <= i
    IN {Lower(t) : t \in membership.rows[latest].tickers}
Scored(df) == momentum(df, "backtest")
Blank(r) == IsNaN(r.beta) /\ \A h \in Intervals : IsNaN(r.score[h])

\* C4: after the restrictor a symbol's row of a month it is not a member in
\* has beta and every score undefined, every other row of every symbol is
\* as momentum left it, the merged tables show the same, and no position is
\* taken in a symbol for a month it was not a member in.
C4_RestrictorFrame ==
    /\ (mode = "backtest" /\ pc = "merge") =>
          \A s \in DOMAIN stocks : \A t \in 1..Len(stocks[s]) :
             LET r == stocks[s][t]
                 n == MonthNumber(r.ym)
             IN IF s \in Members(n) THEN r = Scored(provider[s])[t] ELSE Blank(r)
    /\ (mode = "backtest" /\ pc = "filter") =>
          \A n \in 1..NumMonths : \A s \in DOMAIN stocks :
             s \notin Members(n) =>
                /\ IsNaN(tables.beta[Label(n)][s])
                /\ IsNaN(tables.changes6[Label(n)][s])
                /\ IsNaN(tables.changes9[Label(n)][s])
                /\ IsNaN(tables.changes12[Label(n)][s])
    /\ mode = "backtest" =>
          \A p \in Positions : p.symbol \in Members(MonthNumber(p.selected))

\* a symbol has a scored row in a month it is not a member in, blanked, and
\* a scored row in a month it is a member in, kept
C4_Witness ==
    /\ mode = "backtest" /\ pc = "merge"
    /\ \E s \in DOMAIN stocks : \E t, u \in 1..Len(stocks[s]) :
          /\ s \notin Members(MonthNumber(stocks[s][t].ym))
          /\ ~IsNaN(Scored(provider[s])[t].score[12])
          /\ Blank(stocks[s][t])
          /\ s \in Members(MonthNumber(stocks[s][u].ym))
          /\ ~IsNaN(stocks[s][u].score[12])

Missed(p) == ~HasMonth(provider[p.symbol], p.month)

\* C6: a position whose symbol has no bars in the execution month does not
\* abort the run.
C6_MissNeverAborts == (\E p \in Positions : Missed(p)) => pc # "aborted"

\* C7: without a membership table prepare_stocks of the backtest completes.
C7_NoFileCompletes ==
    (mode = "backtest" /\ ~membership.loaded) => pc # "aborted"

NextCalendarMonth(ym) == IF ym[2] = 12 THEN <<ym[1] + 1, 1>> ELSE <<ym[1], ym[2] + 1>>

\* C9: every position is filed under the calendar month after the month it
\* was selected in, and once looked up its buy is that month's first open
\* and its sell that month's last close.
C9_NextMonth ==
    \A p \in Positions :
       /\ p.month = NextCalendarMonth(p.selected)
       /\ (pc = "aggregate" /\ ~Missed(p)) =>
             \E t \in 1..Len(provider[p.symbol]) :
                /\ provider[p.symbol][t].ym = NextCalendarMonth(p.selected)
                /\ p.buy = Def(provider[p.symbol][t].Open)
                /\ p.sell = Def(provider[p.symbol][t].Close)

\* positions selected in December and in January, looked up
C9_Witness ==
    /\ pc = "aggregate"
    /\ \E p, q \in Positions :
          /\ p.selected = <<2016, 12>> /\ p.month = <<2017, 1>> /\ ~IsNaN(p.buy)
          /\ q.selected = <<2017, 1>> /\ q.month = <<2017, 2>> /\ ~IsNaN(q.buy)

\* C10: the last row of every scored symbol has no score, the last row of
\* the returned table has no score for any symbol, and what the screener
\* writes has an empty 'next', nothing added and all of 'current' removed.
C10_LastMonthUndefined ==
    /\ pc \in {"restrict", "merge", "filter"} =>
          \A s \in DOMAIN stocks : \A h \in Intervals :
             IsNaN(stocks[s][Len(stocks[s])].score[h])
    /\ pc = "main" =>
          \A s \in DOMAIN sp_500_stocks[NumMonths].scores :
             IsNaN(sp_500_stocks[NumMonths].scores[s])
    /\ Written =>
          /\ report.next = {} /\ report.added = {}
          /\ report.removed = report.current

C10_Witness == Written /\ report.current # {} /\ report.removed = report.current

=============================================================================
